---- MODULE Spec2Model ----
(***************************************************************************)
(* A model of bf-fast (src/src/lib.rs): the pipeline                       *)
(*     evaluate = execute . compile . optimize . minify                    *)
(* Texts are sequences of one-character strings, bytes are 0..255, and an  *)
(* instruction is a record [op, arg] (arg is 0 for the variants of         *)
(* Instructions that carry no payload).  Indices of the source (position,  *)
(* seek, program_pos, pointer_pos, loop targets) are kept zero-based as in *)
(* the source; TLA+ sequences are one-based, hence the "+ 1" at each       *)
(* access.                                                                 *)
(***************************************************************************)
EXTENDS Integers, Sequences, FiniteSets, TLC

VARIABLES
    stage,        \* where evaluate is: "minify", "optimize", "pass1", "pass2",
                  \* "execute", "returned" or "abort" (a panic)
    fault,        \* what panicked, "none" until then
    source,       \* evaluate's argument source
    print_live,   \* evaluate's argument print_live
    minified,     \* minify's result
    optimized,    \* optimize's result, compile's characters
    position,     \* compile: the loop variable of pass 1, then of pass 2
    program,      \* compile: the program, read by execute
    memory,       \* execute: the tape, as the map of its nonzero cells
    program_pos,  \* execute: the program counter
    pointer_pos,  \* execute: the cursor
    output,       \* execute: the output accumulator (bytes)
    sink,         \* the bytes print! has written to stdout
    result        \* the String evaluate returned (its bytes)

vars == <<stage, fault, source, print_live, minified, optimized, position,
          program, memory, program_pos, pointer_pos, output, sink, result>>

\* evaluate's arguments and the results of the stages before compile
texts == <<source, print_live, minified, optimized>>

\* execute's local variables
machine == <<memory, program_pos, pointer_pos, output, sink>>

-----------------------------------------------------------------------------
(* Bounds of the exploration. *)

\* longest source text drawn from the whole alphabet
MaxLen == 3

\* longest source text drawn from the loop alphabet
MaxLoopLen == 5

\* longest output accumulated before the exploration of a run stops
MaxOut == 13

\* longest text given to the rewriter alone (SpecRewrite)
MaxRewriteLen == 6

\* most characters the reference interpreter executes on one text
MaxReferenceSteps == 40

(* Program constants. *)

TapeLen == 30000

ByteMod == 256

-----------------------------------------------------------------------------
(* Source texts. *)

\* The eight instruction characters and two characters that are not
\* instructions ("c" is also the shorthand optimize writes).
Alphabet == {">", "<", "+", "-", ",", ".", "[", "]", "c", "#"}

LoopAlphabet == {"+", "-", "[", "]", "."}

Texts(alphabet, n) == UNION {[1..k -> alphabet] : k \in 0..n}

\* tests::hello_world's program, character by character
HelloWorld ==
    <<"+", "+", "+", "+", "+", "+", "+", "+", "+", "+", "[", ">",
       "+", "+", "+", "+", "+", "+", "+", ">", "+", "+", "+", "+",
       "+", "+", "+", "+", "+", "+", ">", "+", "+", "+", ">", "+",
       "<", "<", "<", "<", "-", "]", ">", "+", "+", ".", ">", "+",
       ".", "+", "+", "+", "+", "+", "+", "+", ".", ".", "+", "+",
       "+", ".", ">", "+", "+", ".", "<", "<", "+", "+", "+", "+",
       "+", "+", "+", "+", "+", "+", "+", "+", "+", "+", "+", ".",
       ">", ".", "+", "+", "+", ".", "-", "-", "-", "-", "-", "-",
       ".", "-", "-", "-", "-", "-", "-", "-", "-", ".", ">", "+",
       ".", ">", ".">>

Repeat(character, n) == [i \in 1..n |-> character]

\* Cell values and magnitudes at the ends and the middle of a byte.
EdgeValues == {0, 1, 127, 128, 254, 255}

EdgeMagnitudes == {1, 2, 127, 128, 129, 255, 256}

\* A cell brought to an edge value, then (after an output, which ends the
\* run of '+') a run of one arithmetic character.
ArithmeticTexts ==
    {Repeat("+", v) \o <<".">> \o Repeat(character, n) :
        v \in EdgeValues, n \in EdgeMagnitudes, character \in {"+", "-"}}

\* Scans over a stretch of nonzero cells: to the right from cell 0 up to
\* the first zero cell, and to the left from cell 2 down to a zero cell 0 or
\* onto a nonzero cell 0.
ScanTexts ==
    {<<"+", ">", "+", ">", "+", "<", "<", "[", ">", "]", ".">>,
     <<">", "+", ">", "+", "[", "<", "]", ".">>,
     <<"+", ">", "+", ">", "+", "[", "<", "]", ".">>,
     <<"+", ">", ">", "+", "<", "<", "[", ">", "]", "+", ".">>}

SpecialTexts == {HelloWorld} \cup ArithmeticTexts \cup ScanTexts

\* Texts that walk the cursor to the right end of the tape: onto its last
\* cell, one past it, and scans that start on the last cells.
BoundaryTexts ==
    {Repeat(">", TapeLen - 1) \o <<"+", ".">>,
     Repeat(">", TapeLen) \o <<"+", ".">>,
     Repeat(">", TapeLen) \o <<".">>,
     Repeat(">", TapeLen - 2) \o <<"+", "[", ">", "]", "+", ".">>,
     Repeat(">", TapeLen - 1) \o <<"+", "[", ">", "]", ".">>,
     Repeat(">", TapeLen) \o <<"[", ">", "]">>,
     Repeat(">", TapeLen) \o <<"[", "<", "]">>,
     Repeat(">", TapeLen) \o <<"[", "-", "]">>,
     Repeat(">", TapeLen) \o <<"[", ".", "]">>}

\* The characters of the four idioms, for the rewriter alone.
RewriteAlphabet == {"[", "]", "+", "-", "<", ">"}

Sources == Texts(Alphabet, MaxLen) \cup Texts(LoopAlphabet, MaxLoopLen)
           \cup SpecialTexts

-----------------------------------------------------------------------------
(* minify *)

IsInstructionChar(character) ==
    character \in {">", "<", "+", "-", ",", ".", "[", "]"}

\* minify, were it to take the shorthand character 'c' for an instruction
minifyKeepingShorthand(src) ==
    SelectSeq(src, LAMBDA character : IsInstructionChar(character) \/ character = "c")

\* The for loop over source.chars() pushes the characters that match, in
\* order: a filter.
minify(src) == SelectSeq(src, IsInstructionChar)

-----------------------------------------------------------------------------
(* optimize *)

\* The indices at which from occurs in s.
Occurrences(s, from) ==
    {i \in 1..(Len(s) - Len(from) + 1) : SubSeq(s, i, i + Len(from) - 1) = from}

\* str::replace's matches: the occurrences taken left to right without
\* overlap, that is, an occurrence is a match unless it starts inside a
\* match to its left.
Matches(s, from) ==
    LET occurrences == Occurrences(s, from)
    IN  CHOOSE taken \in SUBSET occurrences :
            \A i \in occurrences :
                i \in taken <=> ~\E j \in taken : j < i /\ i < j + Len(from)

\* str::replace(from, to) for a one-character to, as optimize calls it: the
\* first character of a match becomes to, the match's other characters go,
\* every other character stays.
replace(s, from, to) ==
    LET taken == Matches(s, from)
        rewritten == [i \in 1..Len(s) |->
                        IF i \in taken THEN to
                        ELSE IF \E j \in taken : j < i /\ i < j + Len(from)
                             THEN "" ELSE s[i]]
    IN  SelectSeq(rewritten, LAMBDA character : character # "")

\* optimize, were the increment idiom forgotten
optimizeWithoutIncrementIdiom(src) ==
    replace(replace(replace(src,
        <<"[", "-", "]">>, "c"),
        <<"[", "<", "]">>, "l"),
        <<"[", ">", "]">>, "r")

optimize(src) ==
    replace(replace(replace(replace(src,
        <<"[", "-", "]">>, "c"),
        <<"[", "+", "]">>, "c"),
        <<"[", "<", "]">>, "l"),
        <<"[", ">", "]">>, "r")

-----------------------------------------------------------------------------
(* compile *)

Instruction(op, arg) == [op |-> op, arg |-> arg]

\* value as u8
AsU8(value) == value % ByteMod

\* A run that starts at start (compile's position): the inner while loop
\* takes the characters that follow while they are up or down and stops
\* (position is then the run's last character) before any other character
\* or at the end of the text; value is +1 for each up and -1 for each down
\* of the run, its first character included.  (value is an i32; no text
\* here is long enough to overflow it.)
RunScan(characters, start, up, down) ==
    LET stops == {q \in start..(Len(characters) - 1) :
                    \/ ~(q < Len(characters) - 1)
                    \/ characters[(q + 1) + 1] \notin {up, down}}
        last == CHOOSE q \in stops : \A r \in stops : q <= r
        ups == Cardinality({q \in start..last : characters[q + 1] = up})
        downs == Cardinality({q \in start..last : characters[q + 1] = down})
    IN  [position |-> last, value |-> ups - downs]

\* The characters that are compiled one to one.
DirectCharacters == {".", ",", "[", "]", "c", "l", "r"}

DirectInstruction(character) ==
    CASE character = "." -> Instruction("PutChar", 0)
      [] character = "," -> Instruction("GetChar", 0)
      [] character = "[" -> Instruction("LoopStart", 0)
      [] character = "]" -> Instruction("LoopEnd", 0)
      [] character = "c" -> Instruction("Clear", 0)
      [] character = "l" -> Instruction("ScanLeft", 0)
      [] character = "r" -> Instruction("ScanRight", 0)

\* What the resolution of one bracket gives: the program, or a panic.
Resolved(prog) == [panic |-> FALSE, program |-> prog]

ResolvePanic == [panic |-> TRUE, program |-> <<>>]

\* Pass 2, a loop start at index at (compile's position): seek walks right,
\* counting the loop starts and loop ends it meets, and each one met is
\* written as the target.  Reading program[seek] past the end panics.
RECURSIVE SeekForward(_, _, _, _)
SeekForward(prog, at, seek, unmatched) ==
    IF unmatched > 0
    THEN LET s == seek + 1 IN
         IF s >= Len(prog) THEN ResolvePanic
         ELSE IF prog[s + 1].op = "LoopStart"
         THEN SeekForward([prog EXCEPT ![at + 1] = Instruction("LoopStart", s)],
                          at, s, unmatched + 1)
         ELSE IF prog[s + 1].op = "LoopEnd"
         THEN SeekForward([prog EXCEPT ![at + 1] = Instruction("LoopStart", s)],
                          at, s, unmatched - 1)
         ELSE SeekForward(prog, at, s, unmatched)
    ELSE Resolved(prog)

\* Pass 2, a loop end at index at (compile's position): seek walks left.
\* At seek = 0 the subtraction overflows: a panic with overflow checks, and
\* without them seek wraps and program[seek] is out of range, a panic too.
RECURSIVE SeekBackward(_, _, _, _)
SeekBackward(prog, at, seek, unmatched) ==
    IF unmatched > 0
    THEN IF seek = 0 THEN ResolvePanic
         ELSE LET s == seek - 1 IN
         IF prog[s + 1].op = "LoopStart"
         THEN SeekBackward([prog EXCEPT ![at + 1] = Instruction("LoopEnd", s)],
                           at, s, unmatched - 1)
         ELSE IF prog[s + 1].op = "LoopEnd"
         THEN SeekBackward([prog EXCEPT ![at + 1] = Instruction("LoopEnd", s)],
                           at, s, unmatched + 1)
         ELSE SeekBackward(prog, at, s, unmatched)
    ELSE Resolved(prog)

-----------------------------------------------------------------------------
(* execute: the tape and the conversions at its boundary *)

\* A usize is written as an integer: u itself below 2^63, and u - 2^64 from
\* there on, so that the cursor usize::MAX, which a wrapping subtraction
\* from 0 leaves, is -1.  (Only the cursor ever leaves 0..2^31.)

\* [0; 30_000]: every cell is zero.  The tape is kept as the map of its
\* nonzero cells; a cell that is not in the map holds 0.
ZeroTape == [p \in {} |-> 0]

\* a bounds check that forgets the cursor wrapped below 0
InTapeBelowTheEnd(pos) == pos < TapeLen

InTape(pos) == pos >= 0 /\ pos < TapeLen

\* memory[pos], for pos in the tape
Cell(mem, pos) == IF pos \in DOMAIN mem THEN mem[pos] ELSE 0

\* memory[pos] = value, for pos in the tape
Store(mem, pos, value) ==
    [q \in (IF value = 0 THEN DOMAIN mem \ {pos} ELSE DOMAIN mem \cup {pos})
        |-> IF q = pos THEN value ELSE mem[q]]

\* an addition that stops at 255 instead of wrapping
saturating_add(cell, num) == IF cell + num > 255 THEN 255 ELSE cell + num

wrapping_add(cell, num) == (cell + num) % ByteMod

wrapping_sub(cell, num) == (cell - num) % ByteMod

\* print!("{}", byte as char): the character U+0000..U+00FF of the byte,
\* written in UTF-8.
PrintedBytes(byte) ==
    IF byte < 128 THEN <<byte>>
    ELSE <<192 + (byte \div 64), 128 + (byte % 64)>>

IsContinuation(byte) == byte >= 128 /\ byte <= 191

\* String::from_utf8: whether the bytes from index i on are well-formed
\* UTF-8 (no overlong form, no surrogate, nothing above U+10FFFF).
RECURSIVE ValidUtf8From(_, _)
ValidUtf8From(bytes, i) ==
    IF i > Len(bytes) THEN TRUE
    ELSE LET first == bytes[i]
             Has(n) == i + n <= Len(bytes)
         IN  IF first < 128 THEN ValidUtf8From(bytes, i + 1)
             ELSE IF first >= 194 /\ first <= 223
             THEN Has(1) /\ IsContinuation(bytes[i + 1])
                  /\ ValidUtf8From(bytes, i + 2)
             ELSE IF first >= 224 /\ first <= 239
             THEN Has(2)
                  /\ IF first = 224 THEN bytes[i + 1] >= 160 /\ bytes[i + 1] <= 191
                     ELSE IF first = 237
                          THEN bytes[i + 1] >= 128 /\ bytes[i + 1] <= 159
                          ELSE IsContinuation(bytes[i + 1])
                  /\ IsContinuation(bytes[i + 2])
                  /\ ValidUtf8From(bytes, i + 3)
             ELSE IF first >= 240 /\ first <= 244
             THEN Has(3)
                  /\ IF first = 240 THEN bytes[i + 1] >= 144 /\ bytes[i + 1] <= 191
                     ELSE IF first = 244
                          THEN bytes[i + 1] >= 128 /\ bytes[i + 1] <= 143
                          ELSE IsContinuation(bytes[i + 1])
                  /\ IsContinuation(bytes[i + 2])
                  /\ IsContinuation(bytes[i + 3])
                  /\ ValidUtf8From(bytes, i + 4)
             ELSE FALSE

ValidUtf8(bytes) == ValidUtf8From(bytes, 1)

\* What a scan gives: the cursor it stops on, or a panic.
Stopped(pos) == [panic |-> FALSE, pos |-> pos]

ScanPanic == [panic |-> TRUE, pos |-> 0]

\* while memory[pointer_pos] != 0 { pointer_pos += 1 }
RECURSIVE ScanRightFrom(_, _)
ScanRightFrom(mem, pos) ==
    IF ~InTape(pos) THEN ScanPanic
    ELSE IF Cell(mem, pos) # 0 THEN ScanRightFrom(mem, pos + 1)
    ELSE Stopped(pos)

\* while memory[pointer_pos] != 0 { pointer_pos -= 1 }.  On a nonzero cell
\* 0 the subtraction overflows: a panic with overflow checks, and without
\* them the cursor wraps to usize::MAX, where memory[pointer_pos] panics.
RECURSIVE ScanLeftFrom(_, _)
ScanLeftFrom(mem, pos) ==
    IF ~InTape(pos) THEN ScanPanic
    ELSE IF Cell(mem, pos) # 0
         THEN IF pos = 0 THEN ScanPanic ELSE ScanLeftFrom(mem, pos - 1)
    ELSE Stopped(pos)

\* Whether the build checks integer overflow (a debug build does and
\* panics; a release build does not and wraps).
OverflowChecks == BOOLEAN

-----------------------------------------------------------------------------
(* evaluate, step by step *)

Init ==
    /\ stage = "minify"
    /\ fault = "none"
    /\ source \in Sources
    /\ print_live \in BOOLEAN
    /\ minified = <<>>
    /\ optimized = <<>>
    /\ position = 0
    /\ program = <<>>
    /\ memory = ZeroTape
    /\ program_pos = 0
    /\ pointer_pos = 0
    /\ output = <<>>
    /\ sink = <<>>
    /\ result = <<>>

\* A panic: evaluate is over and returns nothing.
Panic(what) ==
    /\ stage' = "abort"
    /\ fault' = what
    /\ UNCHANGED <<texts, position, program, machine, result>>

Minify ==
    /\ stage = "minify"
    /\ minified' = minify(source)
    /\ stage' = "optimize"
    /\ UNCHANGED <<fault, source, print_live, optimized, position, program,
                   machine, result>>

Optimize ==
    /\ stage = "optimize"
    /\ optimized' = optimize(minified)
    /\ stage' = "pass1"
    /\ UNCHANGED <<fault, source, print_live, minified, position, program,
                   machine, result>>

(* compile, pass 1: one action is one turn of the while loop over position *)

\* Pass 1 is at a character.
Compiling ==
    /\ stage = "pass1"
    /\ position # Len(optimized)

Character == optimized[position + 1]

\* program.push(instruction); position += 1, position being where the run
\* or the character ended.
Push(instruction, last) ==
    /\ program' = Append(program, instruction)
    /\ position' = last + 1
    /\ UNCHANGED <<stage, fault, texts, machine, result>>

\* break: the while loop is left, and pass 2 (its position starting at 0)
\* works on what was pushed so far.
Break ==
    /\ stage' = "pass2"
    /\ position' = 0
    /\ UNCHANGED <<fault, texts, program, machine, result>>

\* '>' | '<'
EmitPointerRun ==
    /\ Compiling
    /\ Character \in {">", "<"}
    /\ LET run == RunScan(optimized, position, ">", "<")
       IN  IF run.value > 0
           THEN Push(Instruction("PointerLeft", run.value), run.position)
           ELSE IF run.value < 0
                THEN Push(Instruction("PointerRight", -run.value), run.position)
                ELSE Break

\* '+' | '-'
EmitArithmeticRun ==
    /\ Compiling
    /\ Character \in {"+", "-"}
    /\ LET run == RunScan(optimized, position, "+", "-")
       IN  IF run.value > 0
           THEN Push(Instruction("Add", AsU8(run.value)), run.position)
           ELSE IF run.value < 0
                THEN Push(Instruction("Sub", AsU8(-run.value)), run.position)
                ELSE Break

\* '.', ',', '[', ']', 'c', 'l', 'r', and _ => panic!()
EmitDirect ==
    /\ Compiling
    /\ Character \notin {">", "<", "+", "-"}
    /\ IF Character \in DirectCharacters
       THEN Push(DirectInstruction(Character), position)
       ELSE Panic("character")

\* position == characters.len(): the while loop ends.
EndPass1 ==
    /\ stage = "pass1"
    /\ position = Len(optimized)
    /\ Break

(* compile, pass 2: one action is one turn of the for loop over position *)

Resolving ==
    /\ stage = "pass2"
    /\ position < Len(program)

\* The turn went through with this program.
Continue(prog) ==
    /\ program' = prog
    /\ position' = position + 1
    /\ UNCHANGED <<stage, fault, texts, machine, result>>

ResolveLoopStart ==
    /\ Resolving
    /\ program[position + 1].op = "LoopStart"
    /\ LET resolved == SeekForward(program, position, position, 1)
       IN  IF resolved.panic THEN Panic("brackets") ELSE Continue(resolved.program)

ResolveLoopEnd ==
    /\ Resolving
    /\ program[position + 1].op = "LoopEnd"
    /\ LET resolved == SeekBackward(program, position, position, 1)
       IN  IF resolved.panic THEN Panic("brackets") ELSE Continue(resolved.program)

\* _ => continue
ResolveOther ==
    /\ Resolving
    /\ program[position + 1].op \notin {"LoopStart", "LoopEnd"}
    /\ Continue(program)

\* The for loop ends: compile returns program, and execute starts on it.
EndPass2 ==
    /\ stage = "pass2"
    /\ position = Len(program)
    /\ stage' = "execute"
    /\ UNCHANGED <<fault, texts, position, program, machine, result>>

(* execute: one action is one turn of the while loop over program_pos *)

\* execute is at an instruction with this op.  (program_pos never exceeds
\* program.len(), so the fetch program[program_pos] itself does not panic.)
Fetching(op) ==
    /\ stage = "execute"
    /\ program_pos < Len(program)
    /\ program[program_pos + 1].op = op

Fetched == program[program_pos + 1]

\* a turn that steps over the instruction after the one it executed
AdvanceByTwo(pos) ==
    /\ program_pos' = pos + 2
    /\ UNCHANGED <<stage, fault, texts, position, program, result>>

\* The turn went through: program_pos += 1, from where the turn left it.
Advance(pos) ==
    /\ program_pos' = pos + 1
    /\ UNCHANGED <<stage, fault, texts, position, program, result>>

\* PointerLeft(num) => pointer_pos += num
StepPointerLeft ==
    /\ Fetching("PointerLeft")
    /\ \E checks \in OverflowChecks :
         LET sum == pointer_pos + Fetched.arg
             overflow == pointer_pos < 0 /\ sum >= 0
         IN  IF overflow /\ checks THEN Panic("overflow")
             ELSE /\ pointer_pos' = sum
                  /\ Advance(program_pos)
                  /\ UNCHANGED <<memory, output, sink>>

\* PointerRight(num) => pointer_pos -= num
StepPointerRight ==
    /\ Fetching("PointerRight")
    /\ \E checks \in OverflowChecks :
         LET difference == pointer_pos - Fetched.arg
             overflow == pointer_pos >= 0 /\ difference < 0
         IN  IF overflow /\ checks THEN Panic("overflow")
             ELSE /\ pointer_pos' = difference
                  /\ Advance(program_pos)
                  /\ UNCHANGED <<memory, output, sink>>

StepAdd ==
    /\ Fetching("Add")
    /\ IF ~InTape(pointer_pos) THEN Panic("tape")
       ELSE /\ memory' = Store(memory, pointer_pos,
                               wrapping_add(Cell(memory, pointer_pos), Fetched.arg))
            /\ Advance(program_pos)
            /\ UNCHANGED <<pointer_pos, output, sink>>

StepSub ==
    /\ Fetching("Sub")
    /\ IF ~InTape(pointer_pos) THEN Panic("tape")
       ELSE /\ memory' = Store(memory, pointer_pos,
                               wrapping_sub(Cell(memory, pointer_pos), Fetched.arg))
            /\ Advance(program_pos)
            /\ UNCHANGED <<pointer_pos, output, sink>>

\* a loop start that tests the cell the wrong way round
StepLoopStartEnteringOnZero ==
    /\ Fetching("LoopStart")
    /\ IF ~InTape(pointer_pos) THEN Panic("tape")
       ELSE /\ Advance(IF Cell(memory, pointer_pos) # 0 THEN Fetched.arg
                       ELSE program_pos)
            /\ UNCHANGED <<memory, pointer_pos, output, sink>>

StepLoopStart ==
    /\ Fetching("LoopStart")
    /\ IF ~InTape(pointer_pos) THEN Panic("tape")
       ELSE /\ Advance(IF Cell(memory, pointer_pos) = 0 THEN Fetched.arg
                       ELSE program_pos)
            /\ UNCHANGED <<memory, pointer_pos, output, sink>>

\* a loop end that never jumps back
StepLoopEndFallingThrough ==
    /\ Fetching("LoopEnd")
    /\ IF ~InTape(pointer_pos) THEN Panic("tape")
       ELSE /\ Advance(program_pos)
            /\ UNCHANGED <<memory, pointer_pos, output, sink>>

StepLoopEnd ==
    /\ Fetching("LoopEnd")
    /\ IF ~InTape(pointer_pos) THEN Panic("tape")
       ELSE /\ Advance(IF Cell(memory, pointer_pos) # 0 THEN Fetched.arg
                       ELSE program_pos)
            /\ UNCHANGED <<memory, pointer_pos, output, sink>>

\* The exploration stops a run whose output has reached MaxOut bytes.
StepPutChar ==
    /\ Fetching("PutChar")
    /\ Len(output) < MaxOut
    /\ IF ~InTape(pointer_pos) THEN Panic("tape")
       ELSE /\ output' = Append(output, Cell(memory, pointer_pos))
            /\ sink' = IF print_live
                       THEN sink \o PrintedBytes(Cell(memory, pointer_pos))
                       ELSE sink
            /\ Advance(program_pos)
            /\ UNCHANGED <<memory, pointer_pos>>

\* an input instruction that reads nothing and goes on
StepGetCharReadingNothing ==
    /\ Fetching("GetChar")
    /\ Advance(program_pos)
    /\ UNCHANGED <<memory, pointer_pos, output, sink>>

StepGetChar ==
    /\ Fetching("GetChar")
    /\ Panic("input")

\* a clear that leaves the cell as it is
StepClearSkipped ==
    /\ Fetching("Clear")
    /\ IF ~InTape(pointer_pos) THEN Panic("tape")
       ELSE /\ Advance(program_pos)
            /\ UNCHANGED <<memory, pointer_pos, output, sink>>

StepClear ==
    /\ Fetching("Clear")
    /\ IF ~InTape(pointer_pos) THEN Panic("tape")
       ELSE /\ memory' = Store(memory, pointer_pos, 0)
            /\ Advance(program_pos)
            /\ UNCHANGED <<pointer_pos, output, sink>>

\* a scan that moves before it tests
StepScanRightMovingFirst ==
    /\ Fetching("ScanRight")
    /\ LET scan == ScanRightFrom(memory, pointer_pos + 1)
       IN  IF scan.panic THEN Panic("tape")
           ELSE /\ pointer_pos' = scan.pos
                /\ Advance(program_pos)
                /\ UNCHANGED <<memory, output, sink>>

StepScanRight ==
    /\ Fetching("ScanRight")
    /\ LET scan == ScanRightFrom(memory, pointer_pos)
       IN  IF scan.panic THEN Panic("tape")
           ELSE /\ pointer_pos' = scan.pos
                /\ Advance(program_pos)
                /\ UNCHANGED <<memory, output, sink>>

StepScanLeft ==
    /\ Fetching("ScanLeft")
    /\ LET scan == ScanLeftFrom(memory, pointer_pos)
       IN  IF scan.panic THEN Panic("tape")
           ELSE /\ pointer_pos' = scan.pos
                /\ Advance(program_pos)
                /\ UNCHANGED <<memory, output, sink>>

\* an end of the loop that is tested only after a fetch: program[0] of an
\* empty program panics
ReturnAfterFetch ==
    /\ stage = "execute"
    /\ program_pos = Len(program)
    /\ IF Len(program) > 0 /\ ValidUtf8(output)
       THEN /\ stage' = "returned"
            /\ result' = output
            /\ UNCHANGED <<fault, texts, position, program, machine>>
       ELSE Panic("fetch")

\* program_pos == program.len(): String::from_utf8(output).unwrap()
Return ==
    /\ stage = "execute"
    /\ program_pos = Len(program)
    /\ IF ValidUtf8(output)
       THEN /\ stage' = "returned"
            /\ result' = output
            /\ UNCHANGED <<fault, texts, position, program, machine>>
       ELSE Panic("utf8")

Next ==
    \/ Minify
    \/ Optimize
    \/ EmitPointerRun
    \/ EmitArithmeticRun
    \/ EmitDirect
    \/ EndPass1
    \/ ResolveLoopStart
    \/ ResolveLoopEnd
    \/ ResolveOther
    \/ EndPass2
    \/ StepPointerLeft
    \/ StepPointerRight
    \/ StepAdd
    \/ StepSub
    \/ StepLoopStart
    \/ StepLoopEnd
    \/ StepPutChar
    \/ StepGetChar
    \/ StepClear
    \/ StepScanRight
    \/ StepScanLeft
    \/ Return

Spec == Init /\ [][Next]_vars


\* minify and optimize alone, on longer texts over the idioms' characters
\* (neither reads print_live).
InitRewrite ==
    /\ stage = "minify"
    /\ fault = "none"
    /\ source \in Texts(RewriteAlphabet, MaxRewriteLen)
    /\ print_live = FALSE
    /\ minified = <<>>
    /\ optimized = <<>>
    /\ position = 0
    /\ program = <<>>
    /\ memory = ZeroTape
    /\ program_pos = 0
    /\ pointer_pos = 0
    /\ output = <<>>
    /\ sink = <<>>
    /\ result = <<>>

NextRewrite ==
    \/ Minify
    \/ Optimize

SpecRewrite == InitRewrite /\ [][NextRewrite]_vars

\* evaluate on the texts of Spec and on the texts that reach the right end
\* of the tape.
InitBoundary ==
    /\ stage = "minify"
    /\ fault = "none"
    /\ source \in Sources \cup BoundaryTexts
    /\ print_live \in BOOLEAN
    /\ minified = <<>>
    /\ optimized = <<>>
    /\ position = 0
    /\ program = <<>>
    /\ memory = ZeroTape
    /\ program_pos = 0
    /\ pointer_pos = 0
    /\ output = <<>>
    /\ sink = <<>>
    /\ result = <<>>

SpecBoundary == InitBoundary /\ [][Next]_vars

-----------------------------------------------------------------------------
(* Notions the properties are stated in *)

EightCharacters == {">", "<", "+", "-", ",", ".", "[", "]"}

\* Whether out is the subsequence of text at the indices of set, in order:
\* the character at the k-th index of set is the k-th of out.
IsSubsequenceAt(out, text, set) ==
    /\ Len(out) = Cardinality(set)
    /\ \A i \in set : out[Cardinality({j \in set : j <= i})] = text[i]

Idioms == {<<"[", "-", "]">>, <<"[", "+", "]">>, <<"[", "<", "]">>, <<"[", ">", "]">>}

HasIdiom(text) == \E i \in 1..(Len(text) - 2) : SubSeq(text, i, i + 2) \in Idioms

\* evaluate is over.
Ended == stage \in {"returned", "abort"}

\* compile has returned a program (execute may have panicked since).
CompileReturned ==
    \/ stage \in {"execute", "returned"}
    \/ stage = "abort" /\ fault \notin {"character", "brackets"}

\* The nesting depth after the first i characters of a text.
Depth(text, i) ==
    Cardinality({k \in 1..i : text[k] = "["}) - Cardinality({k \in 1..i : text[k] = "]"})

\* A ']' with no '[' open before it, or a '[' never closed.
HasUnmatchedBracket(text) ==
    \/ \E i \in 1..Len(text) : Depth(text, i) < 0
    \/ Depth(text, Len(text)) > 0

\* The runs of pass 1: '>' and '<' make runs of moves, '+' and '-' runs of
\* arithmetic, and every other character stands alone.
RunKind(character) ==
    IF character \in {">", "<"} THEN "move"
    ELSE IF character \in {"+", "-"} THEN "arithmetic" ELSE "alone"

\* The indices (from 1) where a maximal run or a single character starts.
Starts(text) ==
    {i \in 1..Len(text) :
        \/ RunKind(text[i]) = "alone"
        \/ i = 1
        \/ RunKind(text[i - 1]) # RunKind(text[i])}

\* The last index of the maximal run or the single character starting at i.
EndOf(text, i) ==
    IF RunKind(text[i]) = "alone" THEN i
    ELSE CHOOSE j \in i..Len(text) :
            /\ \A k \in i..j : RunKind(text[k]) = RunKind(text[i])
            /\ (j = Len(text) \/ RunKind(text[j + 1]) # RunKind(text[i]))

\* The net sum of the run starting at i: its '>' less its '<', or its '+'
\* less its '-'.
Net(text, i) ==
    Cardinality({k \in i..EndOf(text, i) : text[k] \in {">", "+"}})
    - Cardinality({k \in i..EndOf(text, i) : text[k] \in {"<", "-"}})

\* The instruction that moves the cursor by delta, and the one that adds
\* delta to the cell, as compile writes them (its PointerLeft is the move
\* to the right).
MoveBy(delta) ==
    IF delta > 0 THEN Instruction("PointerLeft", delta)
    ELSE Instruction("PointerRight", -delta)

AddOf(delta) ==
    IF delta > 0 THEN Instruction("Add", delta % 256)
    ELSE Instruction("Sub", (-delta) % 256)

\* What the run or character starting at i is to emit.
EmissionAt(text, i) ==
    IF RunKind(text[i]) = "move" THEN MoveBy(Net(text, i))
    ELSE IF RunKind(text[i]) = "arithmetic" THEN AddOf(Net(text, i))
    ELSE DirectInstruction(text[i])

\* The starts that emit: every single character and every run whose net
\* sum is not zero.
EmittingStarts(text) ==
    {i \in Starts(text) : RunKind(text[i]) = "alone" \/ Net(text, i) # 0}

\* Whether prog is, in order, the emissions at the indices of set.
IsEmissionsAt(prog, text, set) ==
    /\ Len(prog) = Cardinality(set)
    /\ \A i \in set : prog[Cardinality({j \in set : j <= i})] = EmissionAt(text, i)

\* Pass 1 has just ended: program is what it emitted.
Pass1Ended == stage = "pass2" /\ position = 0

\* The index of the loop end that closes the loop start at index i of a
\* program: the first one after i at which the brackets from i on balance.
Balance(prog, i, j) ==
    Cardinality({k \in i..j : prog[k + 1].op = "LoopStart"})
    - Cardinality({k \in i..j : prog[k + 1].op = "LoopEnd"})

MatchingEnd(prog, i) ==
    CHOOSE j \in (i + 1)..(Len(prog) - 1) :
        /\ Balance(prog, i, j) = 0
        /\ \A k \in (i + 1)..(j - 1) : Balance(prog, i, k) # 0

-----------------------------------------------------------------------------
(* C6 *)

\* C6: minify returns exactly the subsequence of its input made of the
\* eight instruction characters, in their original order: every such
\* character is kept, every other one dropped, and the empty input gives
\* the empty output.
C6_MinifyIsTheInstructionSubsequence ==
    stage = "optimize" =>
        /\ IsSubsequenceAt(minified, source,
                           {i \in 1..Len(source) : source[i] \in EightCharacters})
        /\ (source = <<>> => minified = <<>>)

\* A text with instruction characters around a character that is dropped.
C6_Witness ==
    /\ stage = "optimize"
    /\ Len(source) = 3
    /\ source[2] \notin EightCharacters
    /\ minified = <<source[1], source[3]>>
    /\ source[1] # source[3]

-----------------------------------------------------------------------------
(* C7 *)

\* C7: for every normalized text t, optimize(t) holds none of the four
\* idioms "[-]", "[+]", "[<]", "[>]", and optimize is idempotent:
\* optimize(optimize(t)) = optimize(t).
C7_OptimizeLeavesNoIdiomAndIsIdempotent ==
    stage \notin {"minify", "optimize"} =>
        /\ ~HasIdiom(optimized)
        /\ optimize(optimized) = optimized

\* A text with two idioms of different kinds, both rewritten.
C7_Witness ==
    /\ stage = "pass1"
    /\ minified = <<"[", "+", "]", "[", "<", "]">>
    /\ optimized = <<"c", "l">>


-----------------------------------------------------------------------------
(* C1 *)

\* "Hello World!\n"
HelloWorldBytes == <<72, 101, 108, 108, 111, 32, 87, 111, 114, 108, 100, 33, 10>>

\* C1 as stated: evaluate on the Hello World program of the test, a program
\* of 106 characters, with live output disabled, runs to completion and
\* returns exactly the 13 bytes of "Hello World!\n".
C1_AsStated ==
    (source = HelloWorld /\ ~print_live /\ Ended) =>
        /\ Len(source) = 106
        /\ stage = "returned"
        /\ result = HelloWorldBytes

\* C1, amended: the program of the test has 111 characters; evaluate on it,
\* with live output disabled, ends by returning (it does not panic) exactly
\* the 13 bytes of "Hello World!\n", in that order.
C1_HelloWorld ==
    (source = HelloWorld /\ ~print_live /\ Ended) =>
        /\ Len(source) = 111
        /\ stage = "returned"
        /\ result = HelloWorldBytes
        /\ Len(result) = 13

C1_Witness ==
    /\ source = HelloWorld
    /\ ~print_live
    /\ stage = "returned"
    /\ result = HelloWorldBytes

-----------------------------------------------------------------------------
(* C2 *)

\* C2: a source text whose instruction characters hold an unmatched '[' or
\* an unmatched ']' never makes evaluate return an output.
C2_UnmatchedBracketNeverReturns ==
    stage = "returned" => ~HasUnmatchedBracket(minified)

-----------------------------------------------------------------------------
(* C3 *)

\* C3: a run whose net sum is zero emits nothing and compilation goes on
\* after it: what pass 1 emits is, in order, the emission of every run with
\* a nonzero net sum and of every single character of the whole text.
C3_Pass1EmitsEveryRun ==
    Pass1Ended => IsEmissionsAt(program, optimized, EmittingStarts(optimized))

-----------------------------------------------------------------------------
(* C4 *)

\* C4: for every maximal run of k '>' and m '<' with k # m, compile emits
\* exactly one relative move, of magnitude |k - m| and towards the right
\* when k > m, towards the left when k < m: the moves of the program are,
\* in order, those of the runs of moves with a nonzero net sum.
C4_EveryMoveRunEmitsItsMove ==
    Pass1Ended =>
        IsEmissionsAt(
            SelectSeq(program,
                      LAMBDA ins : ins.op \in {"PointerLeft", "PointerRight"}),
            optimized,
            {i \in EmittingStarts(optimized) : RunKind(optimized[i]) = "move"})

-----------------------------------------------------------------------------
(* C5 *)

\* C5: for every rewritten text with balanced brackets compile succeeds,
\* and in its program the loop start at i carries the index j of the loop
\* end that closes it, and the loop end at j carries i.
C5_BalancedTextCompilesWithMutualTargets ==
    (stage \notin {"minify", "optimize"} /\ ~HasUnmatchedBracket(optimized)) =>
        /\ fault \notin {"character", "brackets"}
        /\ CompileReturned =>
             \A i \in 0..(Len(program) - 1) :
                program[i + 1].op = "LoopStart" =>
                    LET j == MatchingEnd(program, i)
                    IN  /\ program[i + 1].arg = j
                        /\ program[j + 1] = Instruction("LoopEnd", i)

-----------------------------------------------------------------------------
(* C8 *)

\* C8: executing an add or a subtract of magnitude n on a cell holding v
\* leaves the cell at (v + n) mod 256 or (v - n) mod 256, v and n being
\* bytes; 255 + 1 is 0 and 0 - 1 is 255, and the step does not panic.
C8_ArithmeticWraps ==
    [][(/\ stage = "execute"
        /\ program_pos < Len(program)
        /\ program[program_pos + 1].op \in {"Add", "Sub"}
        /\ InTape(pointer_pos))
       => LET n == program[program_pos + 1].arg
              v == Cell(memory, pointer_pos)
              exact == IF program[program_pos + 1].op = "Add" THEN v + n ELSE v - n
              wrapped == IF exact > 255 THEN exact - 256
                         ELSE IF exact < 0 THEN exact + 256 ELSE exact
          IN  /\ n \in 0..255
              /\ v \in 0..255
              /\ stage' = "execute"
              /\ program_pos' = program_pos + 1
              /\ pointer_pos' = pointer_pos
              /\ Cell(memory', pointer_pos) = wrapped
              /\ \A p \in (DOMAIN memory \cup DOMAIN memory') \ {pointer_pos} :
                    Cell(memory', p) = Cell(memory, p)]_vars

\* 255 + 1 has been executed and left 0.
C8_Witness ==
    /\ stage = "execute"
    /\ program = <<Instruction("Add", 255), Instruction("PutChar", 0),
                   Instruction("Add", 1)>>
    /\ program_pos = 3
    /\ Cell(memory, 0) = 0

-----------------------------------------------------------------------------
(* C9 *)

\* A text made of arithmetic characters that leave cell 0 at a nonzero
\* value, then "[-]" or "[+]".
IsArithmeticThenClear(text) ==
    /\ Len(text) > 3
    /\ SubSeq(text, Len(text) - 2, Len(text))
          \in {<<"[", "-", "]">>, <<"[", "+", "]">>}
    /\ \A i \in 1..(Len(text) - 3) : text[i] \in {"+", "-"}
    /\ (Cardinality({i \in 1..(Len(text) - 3) : text[i] = "+"})
        - Cardinality({i \in 1..(Len(text) - 3) : text[i] = "-"})) % 256 # 0

\* C9: a program of arithmetic characters that leave the current cell
\* nonzero, followed by the clear idiom, does not panic and ends with that
\* cell (and the whole tape) zero, the cursor unmoved and no output.
C9_ClearIdiomZeroesTheCell ==
    IsArithmeticThenClear(minified) =>
        /\ stage # "abort"
        /\ stage = "returned" =>
             /\ Cell(memory, 0) = 0
             /\ memory = ZeroTape
             /\ pointer_pos = 0
             /\ output = <<>>
             /\ sink = <<>>
             /\ result = <<>>

\* The increment idiom has cleared a cell that two decrements left at 254.
C9_Witness ==
    /\ minified = <<"-", "-", "[", "+", "]">>
    /\ program = <<Instruction("Sub", 2), Instruction("Clear", 0)>>
    /\ stage = "returned"
    /\ memory = ZeroTape

-----------------------------------------------------------------------------
(* C10 *)

\* C10: evaluating the empty source, with either value of print_live, does
\* not panic and returns the empty output.
C10_EmptySourceReturnsEmpty ==
    source = <<>> =>
        /\ stage # "abort"
        /\ stage = "returned" => (result = <<>> /\ output = <<>> /\ sink = <<>>)

C10_Witness ==
    /\ source = <<>>
    /\ print_live
    /\ stage = "returned"
    /\ result = <<>>

-----------------------------------------------------------------------------
(* C11 *)

\* The failures of a run that the state still shows: the panic it raised
\* (an executed input instruction, a cell accessed outside the tape, an
\* output that is not text, an overflow, a bracket compile found unmatched)
\* and a text that is malformed whether or not compile found it so.
RaisedFailure == fault # "none"

MalformedProgram == HasUnmatchedBracket(minified)

\* C11: every failure kind (malformed program, executed input instruction,
\* out-of-bounds tape access, output that is not valid text) ends the
\* evaluation in an abort that returns nothing: no run both hits one of
\* them and returns a result.
C11_NoFailureReturnsAResult ==
    /\ RaisedFailure => (stage = "abort" /\ result = <<>>)
    /\ stage = "returned" =>
          /\ ~RaisedFailure
          /\ ~MalformedProgram
          /\ ValidUtf8(result)

-----------------------------------------------------------------------------
(* C12 *)

\* C12: a loop start executed at index i, whose resolved target j is the
\* index of its matching loop end, leaves the program counter at j + 1 when
\* the cell under the cursor is zero and at i + 1 when it is not; the step
\* changes neither the tape, nor the cursor, nor the output.
C12_LoopStartSkipsOrEnters ==
    [][(Fetching("LoopStart") /\ InTape(pointer_pos))
       => LET i == program_pos
              j == Fetched.arg
          IN  /\ j = MatchingEnd(program, i)
              /\ program[j + 1].op = "LoopEnd"
              /\ stage' = "execute"
              /\ program' = program
              /\ program_pos' = IF Cell(memory, pointer_pos) = 0
                                THEN j + 1 ELSE i + 1
              /\ memory' = memory
              /\ pointer_pos' = pointer_pos
              /\ output' = output
              /\ sink' = sink]_vars

\* "[.]." on the zero tape: the loop start at 0 has skipped the output of
\* the body and left the counter at 3, past the loop end at 2.
C12_Witness ==
    /\ minified = <<"[", ".", "]", ".">>
    /\ program = <<Instruction("LoopStart", 2), Instruction("PutChar", 0),
                   Instruction("LoopEnd", 0), Instruction("PutChar", 0)>>
    /\ stage = "execute"
    /\ program_pos = 3
    /\ output = <<>>

-----------------------------------------------------------------------------
(* C13 *)

\* C13: a loop end executed at index j, whose resolved target i is the
\* index of its matching loop start, leaves the program counter at i + 1
\* (the first instruction of the body) when the cell under the cursor is
\* not zero and at j + 1 when it is zero; the step changes neither the
\* tape, nor the cursor, nor the output.
C13_LoopEndRepeatsOrLeaves ==
    [][(Fetching("LoopEnd") /\ InTape(pointer_pos))
       => LET j == program_pos
              i == Fetched.arg
          IN  /\ program[i + 1].op = "LoopStart"
              /\ j = MatchingEnd(program, i)
              /\ stage' = "execute"
              /\ program' = program
              /\ program_pos' = IF Cell(memory, pointer_pos) # 0
                                THEN i + 1 ELSE j + 1
              /\ memory' = memory
              /\ pointer_pos' = pointer_pos
              /\ output' = output
              /\ sink' = sink]_vars

\* "+[+.]": the body has run once (the cell is 2 and was output), and the
\* loop end at 4 has sent the counter back to 2, the first instruction of
\* the body.
C13_Witness ==
    /\ minified = <<"+", "[", "+", ".", "]">>
    /\ program = <<Instruction("Add", 1), Instruction("LoopStart", 4),
                   Instruction("Add", 1), Instruction("PutChar", 0),
                   Instruction("LoopEnd", 1)>>
    /\ stage = "execute"
    /\ program_pos = 2
    /\ memory = Store(ZeroTape, 0, 2)
    /\ output = <<2>>

-----------------------------------------------------------------------------
(* C14 *)

\* execute starts with the program counter at 0.
CounterStartsAtZero ==
    (stage # "execute" /\ stage' = "execute") => program_pos' = 0

\* The program counter is an index of the program or its length.
CounterInProgram ==
    CompileReturned => (program_pos >= 0 /\ program_pos <= Len(program))

\* execute returns only from the end of the program.
ReturnsOnlyAtTheEnd ==
    (stage = "execute" /\ stage' = "returned")
        => (program_pos = Len(program) /\ result' = output)

\* C14 as stated: the counter starts at 0, stays within 0..program length,
\* and the Machine returns its output exactly in the states where the
\* counter equals the program length.
C14_AsStated ==
    /\ []CounterInProgram
    /\ [][/\ CounterStartsAtZero
          /\ ReturnsOnlyAtTheEnd
          /\ (stage = "execute" /\ program_pos = Len(program))
                => (stage' = "returned" /\ result' = output)]_vars

\* C14, amended: the counter starts at 0, stays within 0..program length,
\* and the Machine leaves its loop exactly in the states where the counter
\* equals the program length: there it returns its output when the bytes
\* are valid UTF-8 and aborts when they are not.
C14_CounterStaysInProgram ==
    /\ []CounterInProgram
    /\ [][/\ CounterStartsAtZero
          /\ ReturnsOnlyAtTheEnd
          /\ (stage = "execute" /\ program_pos = Len(program))
                => IF ValidUtf8(output)
                   THEN stage' = "returned" /\ result' = output
                   ELSE stage' = "abort" /\ result' = <<>>]_vars

\* "-.": the counter has reached the length of the program, 2, with the
\* byte 255 as the output, and the evaluation has aborted there.
C14_Witness ==
    /\ minified = <<"-", ".">>
    /\ program_pos = Len(program)
    /\ program_pos = 2
    /\ output = <<255>>
    /\ stage = "abort"
    /\ result = <<>>

-----------------------------------------------------------------------------
(* C15 *)

\* C15: with live output, the bytes written to the sink are, in every
\* state, the bytes of the output accumulator, in the same order; an output
\* instruction appends the byte of the current cell to both, and no other
\* instruction writes to either.
C15_SinkHoldsTheOutputBytes ==
    /\ [](print_live => sink = output)
    /\ [][/\ (Fetching("PutChar") /\ InTape(pointer_pos))
             => output' = Append(output, Cell(memory, pointer_pos))
          /\ ~Fetching("PutChar")
             => (output' = output /\ sink' = sink)]_vars

-----------------------------------------------------------------------------
(* C16 *)

\* C16: when the program counter reaches an input instruction the
\* evaluation aborts at that step and returns nothing; the abort for input
\* happens nowhere else, so an input instruction that is never reached (as
\* in "[,]", whose loop is skipped on the zero tape) does not abort the run.
C16_InputAbortsWhenReached ==
    /\ [][Fetching("GetChar")
            => (stage' = "abort" /\ fault' = "input" /\ result' = <<>>)]_vars
    /\ [](fault = "input" =>
            /\ stage = "abort"
            /\ result = <<>>
            /\ program_pos < Len(program)
            /\ program[program_pos + 1].op = "GetChar")
    /\ [](minified = <<"[", ",", "]">> => stage # "abort")

\* ".,": the byte 0 was output, then the input instruction at 1 was reached
\* and the evaluation aborted without returning it.
C16_Witness ==
    /\ minified = <<".", ",">>
    /\ program = <<Instruction("PutChar", 0), Instruction("GetChar", 0)>>
    /\ program_pos = 1
    /\ output = <<0>>
    /\ stage = "abort"
    /\ fault = "input"
    /\ result = <<>>

-----------------------------------------------------------------------------
(* C17 *)

\* The number of nonzero cells in a row from cell p on, going right (+1) or
\* left (-1); the cell after them holds 0 or is off the tape.
NonzeroStretch(mem, p, direction) ==
    CHOOSE n \in 0..Cardinality(DOMAIN mem) :
        /\ \A k \in 0..(n - 1) : p + direction * k \in DOMAIN mem
        /\ p + direction * n \notin DOMAIN mem

\* The scan of one instruction is over after this step: it has stopped on a
\* cell or the evaluation has aborted.
ScanEnds(direction) ==
    LET p == pointer_pos
        q == p + direction * NonzeroStretch(memory, p, direction)
    IN  IF InTape(p) /\ InTape(q)
        THEN /\ stage' = "execute"
             /\ program_pos' = program_pos + 1
             /\ pointer_pos' = q
             /\ Cell(memory, q) = 0
             /\ memory' = memory
             /\ output' = output
             /\ sink' = sink
        ELSE /\ stage' = "abort"
             /\ result' = <<>>

\* C17: a scan to the right (left) from cursor p ends in one of two ways:
\* the cursor stops on the nearest zero cell at or to the right (left) of
\* p, tape and output unchanged, or every cell from p to that end of the
\* tape is nonzero and the evaluation aborts; it never stops on a nonzero
\* cell.
C17_ScanStopsOnNearestZeroOrAborts ==
    [][/\ Fetching("ScanRight") => ScanEnds(1)
       /\ Fetching("ScanLeft") => ScanEnds(-1)]_vars

\* "+>+>+<<[>].": the scan to the right, started on cell 0 with cells 0, 1
\* and 2 nonzero, has stopped on cell 3.
C17_Witness ==
    /\ stage = "execute"
    /\ program_pos = 7
    /\ program[program_pos].op = "ScanRight"
    /\ DOMAIN memory = {0, 1, 2}
    /\ pointer_pos = 3
    /\ output = <<>>

-----------------------------------------------------------------------------
(* C18 *)

\* The cells of the tape.
TapeCells == 0..(TapeLen - 1)

\* The instructions that read or write the cell under the cursor (a scan
\* reads it before it moves).
CellInstructions ==
    {"Add", "Sub", "LoopStart", "LoopEnd", "PutChar", "Clear",
     "ScanRight", "ScanLeft"}

\* C18: an instruction that reads or writes the cell under the cursor while
\* the cursor is outside 0..29999 aborts the evaluation, whether a relative
\* move or a scan took the cursor there: no cell outside the tape is ever
\* written or read for an output, and no run returns after such an access.
C18_NoAccessOutsideTheTape ==
    /\ [](DOMAIN memory \subseteq TapeCells)
    /\ [](stage = "returned" => fault = "none")
    /\ [][/\ (/\ stage = "execute"
              /\ program_pos < Len(program)
              /\ program[program_pos + 1].op \in CellInstructions
              /\ pointer_pos \notin TapeCells)
             => /\ stage' = "abort"
                /\ result' = <<>>
                /\ memory' = memory
                /\ output' = output
          /\ (/\ stage = "execute"
              /\ program_pos < Len(program)
              /\ program[program_pos + 1].op \in {"ScanRight", "ScanLeft"}
              /\ stage' = "execute")
             => pointer_pos' \in TapeCells
          /\ stage = "abort" => stage' = "abort"]_vars

\* "<+" in a build without overflow checks: the move left from cell 0 has
\* wrapped the cursor to usize::MAX, and the addition to the cell there has
\* aborted the evaluation, the tape untouched.
C18_Witness ==
    /\ minified = <<"<", "+">>
    /\ stage = "abort"
    /\ fault = "tape"
    /\ program_pos = 1
    /\ program[program_pos + 1].op = "Add"
    /\ pointer_pos = -1
    /\ memory = ZeroTape
    /\ result = <<>>

-----------------------------------------------------------------------------
(* C19 *)

\* A text of arithmetic and output characters only: every '+' and '-' of
\* it acts on cell 0.
OnlyArithmeticAndOutput(text) ==
    \A k \in 1..Len(text) : text[k] \in {"+", "-", "."}

\* execute has gone through the whole program.
AtTheEnd ==
    /\ CompileReturned
    /\ program_pos = Len(program)

\* C19: for every maximal run of k '+' and m '-' with k # m, also when
\* |k - m| is above 255, compile emits exactly one arithmetic instruction
\* (the arithmetic instructions of the program are, in order, those of the
\* runs of arithmetic with a nonzero net sum), and executing it takes the
\* cell from v to (v + k - m) mod 256: after a text of '+', '-' and '.'
\* cell 0 holds the number of its '+' less the number of its '-', mod 256.
C19_EveryArithmeticRunEmitsItsSum ==
    /\ Pass1Ended =>
          IsEmissionsAt(
              SelectSeq(program, LAMBDA ins : ins.op \in {"Add", "Sub"}),
              optimized,
              {i \in EmittingStarts(optimized) :
                  RunKind(optimized[i]) = "arithmetic"})
    /\ (AtTheEnd /\ OnlyArithmeticAndOutput(optimized)) =>
          Cell(memory, 0) =
              (Cardinality({k \in 1..Len(optimized) : optimized[k] = "+"})
               - Cardinality({k \in 1..Len(optimized) : optimized[k] = "-"}))
              % ByteMod

-----------------------------------------------------------------------------
(* C20 *)

\* The reference interpreter: the instruction characters of a text executed
\* one at a time on execute's tape, cursor and output, the brackets matched
\* on the text, no idiom rewritten and no run collapsed.

\* The '[' less the ']' among the characters i..j of a text.
TextBalance(text, i, j) ==
    Cardinality({k \in i..j : text[k] = "["})
    - Cardinality({k \in i..j : text[k] = "]"})

\* The index of the ']' that closes the '[' at i, and of the '[' that the
\* ']' at j closes.
ClosingBracket(text, i) ==
    CHOOSE j \in (i + 1)..Len(text) :
        /\ TextBalance(text, i, j) = 0
        /\ \A k \in i..(j - 1) : TextBalance(text, i, k) > 0

OpeningBracket(text, j) ==
    CHOOSE i \in 1..(j - 1) :
        /\ TextBalance(text, i, j) = 0
        /\ \A k \in (i + 1)..j : TextBalance(text, k, j) < 0

\* How a reference run ends: it returns its output, it aborts, or it is not
\* followed further (after MaxReferenceSteps characters, or at a move left
\* from cell 0, whose outcome depends on the build).
ReferenceReturns(out) == [outcome |-> "returned", output |-> out]

ReferenceAborts == [outcome |-> "abort", output |-> <<>>]

ReferenceUnknown == [outcome |-> "unknown", output |-> <<>>]

\* The run from the character at index pc (from 1) on.
RECURSIVE ReferenceRun(_, _, _, _, _, _)
ReferenceRun(text, pc, mem, cursor, out, steps) ==
    IF pc > Len(text)
    THEN IF ValidUtf8(out) THEN ReferenceReturns(out) ELSE ReferenceAborts
    ELSE IF steps = 0 THEN ReferenceUnknown
    ELSE LET character == text[pc]
             cell == Cell(mem, cursor)
         IN  CASE character = ">" ->
                    ReferenceRun(text, pc + 1, mem, cursor + 1, out, steps - 1)
               [] character = "<" ->
                    IF cursor = 0 THEN ReferenceUnknown
                    ELSE ReferenceRun(text, pc + 1, mem, cursor - 1, out,
                                      steps - 1)
               [] character = "+" ->
                    ReferenceRun(text, pc + 1,
                                 Store(mem, cursor, (cell + 1) % ByteMod),
                                 cursor, out, steps - 1)
               [] character = "-" ->
                    ReferenceRun(text, pc + 1,
                                 Store(mem, cursor, (cell - 1) % ByteMod),
                                 cursor, out, steps - 1)
               [] character = "." ->
                    ReferenceRun(text, pc + 1, mem, cursor, Append(out, cell),
                                 steps - 1)
               [] character = "[" ->
                    ReferenceRun(text,
                                 IF cell = 0 THEN ClosingBracket(text, pc) + 1
                                 ELSE pc + 1,
                                 mem, cursor, out, steps - 1)
               [] character = "]" ->
                    ReferenceRun(text,
                                 IF cell # 0 THEN OpeningBracket(text, pc) + 1
                                 ELSE pc + 1,
                                 mem, cursor, out, steps - 1)
               [] OTHER -> ReferenceUnknown

Reference(text) ==
    ReferenceRun(text, 1, ZeroTape, 0, <<>>, MaxReferenceSteps)

\* C20: on a source text with balanced brackets and no ',', evaluate ends
\* as the reference interpreter does on the normalized text: it returns
\* the same output bytes when the reference returns, and aborts when the
\* reference aborts.
C20_EvaluateAgreesWithTheReference ==
    (/\ Ended
     /\ ~HasUnmatchedBracket(minified)
     /\ \A k \in 1..Len(minified) : minified[k] # ",")
    => LET reference == Reference(minified)
       IN  /\ reference.outcome = "returned"
                => (stage = "returned" /\ result = reference.output)
           /\ reference.outcome = "abort" => stage = "abort"

====
